---- MODULE Spec2Model ----
(***************************************************************************)
(* Model of the Airflow DAG itsm_data_pipeline                             *)
(* (src/item_analytics/airflow/dags/itsm_data_pipeline.py).                *)
(*                                                                         *)
(* State: the source spreadsheet, the intermediate file                    *)
(* /tmp/itsm_staging.csv, the PostgreSQL table itsm_raw_tickets, and the   *)
(* task instances of one DAG run at a time (state, try number, e-mails,    *)
(* the exception logged by the latest attempt).                            *)
(*                                                                         *)
(* Numbers: timestamps are whole seconds since 2024-01-01T00:00:00; a      *)
(* float is the exact rational n/d in lowest terms (IEEE rounding of the   *)
(* quotient is not modelled).                                              *)
(*                                                                         *)
(* Runs of the DAG follow one another (a daily schedule, runs of minutes): *)
(* a run is triggered when the previous one has ended.  The retry delay    *)
(* is not modelled: a task up for retry may be started at any later step.  *)
(***************************************************************************)
EXTENDS Integers, Sequences, FiniteSets, TLC

(* ----------------------------- bounds ---------------------------------- *)
MaxRows == 3     \* rows of the spreadsheet sheet 'Raw Data'

(* ------------------------- program constants --------------------------- *)
retries == 1                  \* default_args['retries']
email_on_failure == TRUE      \* default_args['email_on_failure']
email_on_retry == FALSE       \* default_args['email_on_retry']
email == {}                   \* default_args has no 'email': no recipient
SecondsPerHour == 3600        \* .dt.total_seconds() / 3600
OutlierMaxHours == 720        \* resolution_time_hours > 720
OutlierMinHours == 0          \* resolution_time_hours < 0

(* ------------------------------ cells ---------------------------------- *)
\* A cell value.  k is the kind, s a text payload, n/d a number (d > 0).
\*   in a DataFrame:  "str", "datetime" (n seconds), "float" (n/d), "nan"
\*   in the CSV file: "csv_text", "csv_datetime", "csv_number", "csv_empty"
\*   in the table:    "str", "float", "null"
Cell(k, s, n, d) == [k |-> k, s |-> s, n |-> n, d |-> d]
Str(s) == Cell("str", s, 0, 1)
Datetime(t) == Cell("datetime", "", t, 1)
Float(n, d) == Cell("float", "", n, d)
NaN == Cell("nan", "", 0, 1)
Null == Cell("null", "", 0, 1)
\* s of the text "%Y-%m-%d %H:%M:%S" written for a timestamp (n: the timestamp)
DatetimeText == "%Y-%m-%d %H:%M:%S"

Abs(x) == IF x < 0 THEN -x ELSE x

RECURSIVE GCD(_, _)
GCD(a, b) == IF b = 0 THEN a ELSE GCD(b, a % b)

(* ----------------------------- columns --------------------------------- *)
\* The columns of the sheet, in the order of the CREATE TABLE statement.
SourceColumns ==
  << "inc_business_service", "inc_category", "inc_number", "inc_priority",
     "inc_sla_due", "inc_sys_created_on", "inc_resolved_at", "inc_assigned_to",
     "inc_state", "inc_cmdb_ci", "inc_caller_id", "inc_short_description",
     "inc_assignment_group", "inc_close_code", "inc_close_notes" >>

DerivedColumn == "resolution_time_hours"

StagingColumns == Append(SourceColumns, DerivedColumn)

Range(f) == { f[i] : i \in DOMAIN f }

\* CREATE TABLE IF NOT EXISTS itsm_raw_tickets ( ... ) : the declared columns
DeclaredType(c) ==
  CASE c \in {"inc_sys_created_on", "inc_resolved_at"} -> "TIMESTAMP"
    [] c = DerivedColumn -> "NUMERIC"
    [] OTHER -> "TEXT"

DeclaredSchema ==
  [ i \in DOMAIN StagingColumns |-> << StagingColumns[i], DeclaredType(StagingColumns[i]) >> ]

(* --------------------------- spreadsheet ------------------------------- *)
\* One row of the sheet: the three fields the pipeline reads, the other
\* twelve columns holding a fixed text.
SourceRow(inc, created, resolved) ==
  [ c \in Range(SourceColumns) |->
      CASE c = "inc_number" -> inc
        [] c = "inc_sys_created_on" -> created
        [] c = "inc_resolved_at" -> resolved
        [] OTHER -> Str("x") ]

\* Rows the sheet may hold: durations of 24 h, -24 h, 0 h, exactly 720 h,
\* 720.5 h, a row missing its incident number and resolution timestamp, and
\* a resolution cell that is no timestamp.
SheetRows ==
  { SourceRow(Str("INC001"), Datetime(0), Datetime(24 * SecondsPerHour)),
    SourceRow(Str("INC001"), Datetime(24 * SecondsPerHour), Datetime(0)),
    SourceRow(Str("INC002"), Datetime(0), Datetime(0)),
    SourceRow(Str("INC002"), Datetime(0), Datetime(OutlierMaxHours * SecondsPerHour)),
    SourceRow(Str("INC001"), Datetime(0), Datetime(OutlierMaxHours * SecondsPerHour + 1800)),
    SourceRow(NaN, Datetime(0), NaN),
    SourceRow(Str("INC003"), Datetime(0), Str("pending")) }

SeqsUpTo(S, n) == UNION { [1..k -> S] : k \in 0..n }

Sheets == SeqsUpTo(SheetRows, MaxRows)

(* ---------------------------- Extractor -------------------------------- *)
\* pd.to_datetime(cell): a timestamp, NaT for a missing cell; any other
\* text raises
Parseable(cell) == cell.k \in {"datetime", "nan"}

\* variant: the seconds divided by 60
HoursOfPerMinute(secs) ==
  LET g == GCD(Abs(secs), 60)
  IN  Float(secs \div g, 60 \div g)

\* timedelta / 3600 as the exact rational in lowest terms
HoursOf(secs) ==
  LET g == GCD(Abs(secs), SecondsPerHour)
  IN  Float(secs \div g, SecondsPerHour \div g)

\* (pd.to_datetime(inc_resolved_at) - pd.to_datetime(inc_sys_created_on))
\*    .dt.total_seconds() / 3600    for one row
resolution_time_hours(row) ==
  LET resolved == row["inc_resolved_at"]
      created == row["inc_sys_created_on"]
  IN  IF resolved.k = "datetime" /\ created.k = "datetime"
      THEN HoursOf(resolved.n - created.n)
      ELSE NaN

\* df['resolution_time_hours'] = ...
WithDuration(df) ==
  [ i \in DOMAIN df |-> df[i] @@ (DerivedColumn :> resolution_time_hours(df[i])) ]

\* DataFrame.to_csv: the text written for one cell
ToCsvCell(cell) ==
  CASE cell.k = "str" -> Cell("csv_text", cell.s, cell.n, 1)
    [] cell.k = "datetime" -> Cell("csv_text", DatetimeText, cell.n, 1)
    [] cell.k = "float" -> Cell("csv_number", "", cell.n, cell.d)
    [] OTHER -> Cell("csv_empty", "", 0, 1)

to_csv(df) == [ i \in DOMAIN df |-> [ c \in DOMAIN df[i] |-> ToCsvCell(df[i][c]) ] ]

NoFile == [ exists |-> FALSE, header |-> << >>, rows |-> << >> ]

CsvFile(header, rows) == [ exists |-> TRUE, header |-> header, rows |-> rows ]

\* The body of extract_itsm_data on sheet `sheet`, the file being `csv`.
\* io names the call that fails ("none": no failure); a failing to_csv
\* leaves the file truncated (modelled at its shortest, the header line).
\* Result: the exception and the file.
ExtractBody(sheet, csv, io) ==
  IF io = "read_excel"
  THEN [ exc |-> "IOError", csv |-> csv ]
  ELSE IF \E i \in DOMAIN sheet :
             \/ ~Parseable(sheet[i]["inc_resolved_at"])
             \/ ~Parseable(sheet[i]["inc_sys_created_on"])
  THEN [ exc |-> "ValueError", csv |-> csv ]
  ELSE IF io = "to_csv"
  THEN [ exc |-> "OSError", csv |-> CsvFile(StagingColumns, << >>) ]
  ELSE [ exc |-> "none", csv |-> CsvFile(StagingColumns, to_csv(WithDuration(sheet))) ]

(* ------------------------------ Loader --------------------------------- *)
\* pd.read_csv: the value parsed from one field (no parse_dates: the text
\* of a timestamp stays a str)
FromCsvCell(cell) ==
  CASE cell.k = "csv_text" -> Cell("str", cell.s, cell.n, 1)
    [] cell.k = "csv_number" -> Float(cell.n, cell.d)
    [] OTHER -> NaN

read_csv(csv) ==
  [ i \in DOMAIN csv.rows |->
      [ c \in DOMAIN csv.rows[i] |-> FromCsvCell(csv.rows[i][c]) ] ]

\* the dtype pandas infers for column c of the frame read from the file
Dtype(df, c) ==
  IF df # << >> /\ \A i \in DOMAIN df : df[i][c].k \in {"float", "nan"}
  THEN "float64"
  ELSE "object"

\* the column type to_sql creates for a dtype
SqlType(dtype) == IF dtype = "float64" THEN "DOUBLE PRECISION" ELSE "TEXT"

\* the value to_sql inserts for a cell (NaN becomes NULL)
ToSqlCell(cell) == IF cell.k = "nan" THEN Null ELSE cell

NoTable == [ exists |-> FALSE, columns |-> << >>, rows |-> << >> ]

Table(columns, rows) == [ exists |-> TRUE, columns |-> columns, rows |-> rows ]

\* the CREATE TABLE that to_sql issues for the frame
FrameSchema(header, df) ==
  [ i \in DOMAIN header |-> << header[i], SqlType(Dtype(df, header[i])) >> ]

FrameRows(df) == [ i \in DOMAIN df |-> [ c \in DOMAIN df[i] |-> ToSqlCell(df[i][c]) ] ]

\* variant: if_exists='append'
to_sql_append(table, header, df) ==
  IF table.exists
  THEN Table(table.columns, table.rows \o FrameRows(df))
  ELSE Table(FrameSchema(header, df), FrameRows(df))

\* df.to_sql('itsm_raw_tickets', engine, if_exists='replace', index=False):
\* the table after it - dropped, created from the frame, filled with it
to_sql_replace(table, header, df) == Table(FrameSchema(header, df), FrameRows(df))

\* The body of load_to_postgres.  read_csv raises when the file is missing.
\* io names the database call that fails: "connect" (before anything is
\* dropped), "insert" (after DROP and CREATE; rolled_back tells whether the
\* DDL was undone with the failed insert).
LoadBody(csv, table, io, rolled_back) ==
  IF ~csv.exists
  THEN [ exc |-> "FileNotFoundError", table |-> table ]
  ELSE IF io = "connect"
  THEN [ exc |-> "OperationalError", table |-> table ]
  ELSE LET df == read_csv(csv)
           new == to_sql_replace(table, csv.header, df)
       IN  IF io = "insert"
           THEN [ exc |-> "OperationalError",
                  table |-> IF rolled_back THEN table ELSE Table(new.columns, << >>) ]
           ELSE [ exc |-> "none", table |-> new ]

(* ------------------------- Schema Initializer -------------------------- *)
\* variant: CREATE TABLE without IF NOT EXISTS
CreateTablePlain(table) ==
  IF table.exists
  THEN [ exc |-> "DuplicateTable", table |-> table ]
  ELSE [ exc |-> "none", table |-> Table(DeclaredSchema, << >>) ]

\* variant: DROP TABLE IF EXISTS, then CREATE TABLE
DropAndCreateTable(table) == [ exc |-> "none", table |-> Table(DeclaredSchema, << >>) ]

\* CREATE TABLE IF NOT EXISTS itsm_raw_tickets ( ... )
CreateTableIfNotExists(table) ==
  IF table.exists
  THEN [ exc |-> "none", table |-> table ]
  ELSE [ exc |-> "none", table |-> Table(DeclaredSchema, << >>) ]

CreateBody(table, io) ==
  IF io = "connect"
  THEN [ exc |-> "OperationalError", table |-> table ]
  ELSE CreateTableIfNotExists(table)

(* --------------------------- Quality Checker --------------------------- *)
ColumnType(table, c) ==
  LET hit == { i \in DOMAIN table.columns : table.columns[i][1] = c }
  IN  IF hit = {} THEN "none" ELSE table.columns[CHOOSE i \in hit : TRUE][2]

\* variant: the rows in excess of one per incident number
SurplusRowsQuery(table) ==
  Cardinality(DOMAIN table.rows)
    - Cardinality({ table.rows[i]["inc_number"] : i \in DOMAIN table.rows })

\* SELECT COUNT( * ) FROM (SELECT inc_number, COUNT( * ) FROM itsm_raw_tickets
\*                       GROUP BY inc_number HAVING COUNT( * ) > 1) t
\* (GROUP BY puts the rows whose inc_number is NULL in one group)
DuplicateQuery(table) ==
  LET keys == { table.rows[i]["inc_number"] : i \in DOMAIN table.rows }
      size(key) == Cardinality({ i \in DOMAIN table.rows : table.rows[i]["inc_number"] = key })
  IN  Cardinality({ key \in keys : size(key) > 1 })

\* variant: resolution_time_hours >= 720 OR resolution_time_hours < 0
IsOutlierInclusive(cell) ==
  /\ cell.k = "float"
  /\ \/ cell.n >= OutlierMaxHours * cell.d
     \/ cell.n < OutlierMinHours * cell.d

\* resolution_time_hours > 720 OR resolution_time_hours < 0  (NULL: unknown)
IsOutlier(cell) ==
  /\ cell.k = "float"
  /\ \/ cell.n > OutlierMaxHours * cell.d
     \/ cell.n < OutlierMinHours * cell.d

\* SELECT COUNT( * ) FROM itsm_raw_tickets WHERE ...
OutlierQuery(table) ==
  Cardinality({ i \in DOMAIN table.rows : IsOutlier(table.rows[i][DerivedColumn]) })

NoChecks == [ duplicate_check |-> -1, outlier_check |-> -1, warnings |-> {} ]

\* whether a finding makes the task raise (variant of RaisesOnFinding)
RaisesOnAnyFinding(count) == count > 0

\* the checks only log: no count makes the task raise
RaisesOnFinding(count) == FALSE

\* whether a warning is logged for a count
Warns(count) == count > 0

\* The body of run_data_quality_checks.  io names the query whose connection
\* fails.  A query on a missing table or column raises, and so does the
\* comparison of a TEXT column with a number.  Result: the exception and
\* what was computed and logged.
QualityBody(table, io) ==
  IF io = "duplicates" THEN [ exc |-> "OperationalError", log |-> NoChecks ]
  ELSE IF ~table.exists \/ ColumnType(table, "inc_number") = "none"
  THEN [ exc |-> "ProgrammingError", log |-> NoChecks ]
  ELSE LET dup == DuplicateQuery(table)
           w1 == IF Warns(dup) THEN {"duplicates"} ELSE {}
           first == [ duplicate_check |-> dup, outlier_check |-> -1, warnings |-> w1 ]
       IN  IF RaisesOnFinding(dup) THEN [ exc |-> "ValueError", log |-> first ]
           ELSE IF io = "outliers" THEN [ exc |-> "OperationalError", log |-> first ]
           ELSE IF ColumnType(table, DerivedColumn) \notin {"NUMERIC", "DOUBLE PRECISION"}
           THEN [ exc |-> "ProgrammingError", log |-> first ]
           ELSE LET out == OutlierQuery(table)
                    w2 == IF Warns(out) THEN {"outliers"} ELSE {}
                    done == [ duplicate_check |-> dup, outlier_check |-> out,
                              warnings |-> w1 \cup w2 ]
                IN  IF RaisesOnFinding(out)
                    THEN [ exc |-> "ValueError", log |-> done ]
                    ELSE [ exc |-> "none", log |-> done ]

(* ------------------------------ the DAG -------------------------------- *)
Tasks ==
  { "extract_itsm_data", "create_staging_table", "load_to_postgres",
    "run_data_quality_checks", "run_dbt_transformations", "run_dbt_tests" }

\* variant: the second chain hung on load_data_task
EdgesForked ==
  { << "extract_itsm_data", "create_staging_table" >>,
    << "create_staging_table", "load_to_postgres" >>,
    << "load_to_postgres", "run_data_quality_checks" >>,
    << "load_to_postgres", "run_dbt_transformations" >>,
    << "run_dbt_transformations", "run_dbt_tests" >> }

\* extract_data_task >> create_staging_table_task >> load_data_task >> data_quality_task
\* data_quality_task >> run_dbt_task >> run_dbt_tests_task
Edges ==
  { << "extract_itsm_data", "create_staging_table" >>,
    << "create_staging_table", "load_to_postgres" >>,
    << "load_to_postgres", "run_data_quality_checks" >>,
    << "run_data_quality_checks", "run_dbt_transformations" >>,
    << "run_dbt_transformations", "run_dbt_tests" >> }

Upstream(t) == { u \in Tasks : << u, t >> \in Edges }

VARIABLES
  xlsx,              \* rows of sheet 'Raw Data' of the source spreadsheet
  staging_csv,       \* /tmp/itsm_staging.csv
  itsm_raw_tickets,  \* the PostgreSQL table
  dag_run,           \* "none", "running", "success", "failed"
  state,             \* task -> state of its task instance in this run
  try_number,        \* task -> attempts started of its unfinished or failed
                     \* instance (nothing reads it once the instance has
                     \* succeeded: it is then cleared)
  emails,            \* e-mails sent in this run: <<task, "failure" | "retry">>
  error,             \* task -> exception raised by its latest attempt
  checks,            \* what run_data_quality_checks computed and logged
  replaced           \* rows of the table the latest to_sql dropped (-1: none)

vars ==
  << xlsx, staging_csv, itsm_raw_tickets, dag_run, state, try_number,
     emails, error, checks, replaced >>

Init ==
  /\ xlsx \in Sheets
  /\ staging_csv = NoFile
  /\ itsm_raw_tickets = NoTable
  /\ dag_run = "none"
  /\ state = [ t \in Tasks |-> "none" ]
  /\ try_number = [ t \in Tasks |-> 0 ]
  /\ emails = {}
  /\ error = [ t \in Tasks |-> "none" ]
  /\ checks = NoChecks
  /\ replaced = -1

(* --------------------------- the scheduler ----------------------------- *)
\* The spreadsheet is revised before the Extractor of a run reads it: the
\* last row of a sheet that has been loaded (the table holds as many rows) is
\* withdrawn.
EditSpreadsheet ==
  /\ dag_run = "running"
  /\ \A t \in Tasks : state[t] = "none"
  /\ xlsx # << >>
  /\ Len(itsm_raw_tickets.rows) = Len(xlsx)
  /\ xlsx' = SubSeq(xlsx, 1, Len(xlsx) - 1)
  /\ UNCHANGED << staging_csv, itsm_raw_tickets, dag_run, state, try_number,
                  emails, error, checks, replaced >>

\* schedule_interval='@daily': a new run, every task instance fresh
TriggerRun ==
  /\ dag_run # "running"
  /\ dag_run' = "running"
  /\ state' = [ t \in Tasks |-> "none" ]
  /\ try_number' = [ t \in Tasks |-> 0 ]
  /\ emails' = {}
  /\ error' = [ t \in Tasks |-> "none" ]
  /\ checks' = NoChecks
  /\ replaced' = -1
  /\ UNCHANGED << xlsx, staging_csv, itsm_raw_tickets >>

\* A task instance is started when every upstream task has succeeded
\* (trigger rule all_success), for the first time or after up_for_retry.
Runnable(t) ==
  /\ dag_run = "running"
  /\ state[t] \in {"none", "up_for_retry"}
  /\ \A u \in Upstream(t) : state[u] = "success"

StartTask(t) ==
  /\ Runnable(t)
  /\ state' = [ state EXCEPT ![t] = "running" ]
  /\ try_number' = [ try_number EXCEPT ![t] = @ + 1 ]
  /\ UNCHANGED << xlsx, staging_csv, itsm_raw_tickets, dag_run, emails,
                  error, checks, replaced >>

\* An upstream task failed: the task is never run in this run.
MarkUpstreamFailed(t) ==
  /\ dag_run = "running"
  /\ state[t] = "none"
  /\ \E u \in Upstream(t) : state[u] \in {"failed", "upstream_failed"}
  /\ state' = [ state EXCEPT ![t] = "upstream_failed" ]
  /\ UNCHANGED << xlsx, staging_csv, itsm_raw_tickets, dag_run, try_number,
                  emails, error, checks, replaced >>

\* The run ends when no task instance is unfinished.
FinishRun ==
  /\ dag_run = "running"
  /\ \A t \in Tasks : state[t] \in {"success", "failed", "upstream_failed"}
  /\ dag_run' = IF \A t \in Tasks : state[t] = "success" THEN "success" ELSE "failed"
  /\ UNCHANGED << xlsx, staging_csv, itsm_raw_tickets, state, try_number,
                  emails, error, checks, replaced >>

\* default_args: whether a failed attempt number `try` is retried
Retried(try) == try <= retries

\* the e-mails sent when an attempt fails: the alert default_args asks for,
\* to the task's recipients - none when the task has no 'email'
FailureEmails(t, try) ==
  IF email = {} THEN {}
  ELSE IF Retried(try)
  THEN IF email_on_retry THEN { << t, "retry" >> } ELSE {}
  ELSE IF email_on_failure THEN { << t, "failure" >> } ELSE {}

\* variant: except Exception as e: logging.error(...)   (no raise)
Swallow(exc) == "none"

\* except Exception as e: logging.error(...); raise
Reraise(exc) == exc

\* The attempt of task t ends: with exception exc ("none": it returned).
EndAttempt(t, exc) ==
  /\ error' = [ error EXCEPT ![t] = exc ]
  /\ IF exc = "none"
     THEN /\ state' = [ state EXCEPT ![t] = "success" ]
          /\ emails' = emails
          /\ try_number' = [ try_number EXCEPT ![t] = 0 ]
     ELSE /\ state' = [ state EXCEPT ![t] =
                          IF Retried(try_number[t]) THEN "up_for_retry" ELSE "failed" ]
          /\ emails' = emails \cup FailureEmails(t, try_number[t])
          /\ try_number' = try_number
  /\ UNCHANGED dag_run

(* ------------------------------ the tasks ------------------------------ *)
\* PythonOperator extract_itsm_data
extract_itsm_data ==
  /\ state["extract_itsm_data"] = "running"
  /\ \E io \in {"none", "read_excel", "to_csv"} :
       LET r == ExtractBody(xlsx, staging_csv, io)
       IN  /\ staging_csv' = r.csv
           /\ EndAttempt("extract_itsm_data", Reraise(r.exc))
  /\ UNCHANGED << xlsx, itsm_raw_tickets, checks, replaced >>

\* PostgresOperator create_staging_table
create_staging_table ==
  /\ state["create_staging_table"] = "running"
  /\ \E io \in {"none", "connect"} :
       LET r == CreateBody(itsm_raw_tickets, io)
       IN  /\ itsm_raw_tickets' = r.table
           /\ EndAttempt("create_staging_table", r.exc)
  /\ UNCHANGED << xlsx, staging_csv, checks, replaced >>

\* PythonOperator load_to_postgres
load_to_postgres ==
  /\ state["load_to_postgres"] = "running"
  /\ \E io \in {"none", "connect", "insert"} : \E rolled_back \in BOOLEAN :
       /\ io = "insert" \/ rolled_back
       /\ LET r == LoadBody(staging_csv, itsm_raw_tickets, io, rolled_back)
          IN  /\ itsm_raw_tickets' = r.table
              /\ replaced' = IF r.exc = "none" /\ itsm_raw_tickets.exists
                             THEN Len(itsm_raw_tickets.rows)
                             ELSE replaced
              /\ EndAttempt("load_to_postgres", Reraise(r.exc))
  /\ UNCHANGED << xlsx, staging_csv, checks >>

\* PythonOperator run_data_quality_checks
run_data_quality_checks ==
  /\ state["run_data_quality_checks"] = "running"
  /\ \E io \in {"none", "duplicates", "outliers"} :
       LET r == QualityBody(itsm_raw_tickets, io)
       IN  /\ checks' = r.log
           /\ EndAttempt("run_data_quality_checks", Reraise(r.exc))
  /\ UNCHANGED << xlsx, staging_csv, itsm_raw_tickets, replaced >>

\* BashOperator: the task fails when the command exits non-zero
BashBody(exit_code) == IF exit_code = 0 THEN "none" ELSE "AirflowException"

\* What `dbt run` / `dbt test` leave of the staged table: dbt reads it as a
\* source and builds its models as other relations.
DbtOnStaging(table) == table

\* BashOperator run_dbt_transformations: cd /opt/airflow/dbt && dbt run
run_dbt_transformations ==
  /\ state["run_dbt_transformations"] = "running"
  /\ itsm_raw_tickets' = DbtOnStaging(itsm_raw_tickets)
  /\ \E exit_code \in {0, 1} : EndAttempt("run_dbt_transformations", BashBody(exit_code))
  /\ UNCHANGED << xlsx, staging_csv, checks, replaced >>

\* BashOperator run_dbt_tests: cd /opt/airflow/dbt && dbt test
run_dbt_tests ==
  /\ state["run_dbt_tests"] = "running"
  /\ itsm_raw_tickets' = DbtOnStaging(itsm_raw_tickets)
  /\ \E exit_code \in {0, 1} : EndAttempt("run_dbt_tests", BashBody(exit_code))
  /\ UNCHANGED << xlsx, staging_csv, checks, replaced >>

Next ==
  \/ EditSpreadsheet
  \/ TriggerRun
  \/ \E t \in Tasks : StartTask(t)
  \/ \E t \in Tasks : MarkUpstreamFailed(t)
  \/ FinishRun
  \/ extract_itsm_data
  \/ create_staging_table
  \/ load_to_postgres
  \/ run_data_quality_checks
  \/ run_dbt_transformations
  \/ run_dbt_tests

Spec == Init /\ [][Next]_vars

(* ======================= properties of the pipeline ==================== *)
Extractor == "extract_itsm_data"
SchemaInitializer == "create_staging_table"
Loader == "load_to_postgres"
QualityChecker == "run_data_quality_checks"
Transformer == "run_dbt_transformations"
TransformVerifier == "run_dbt_tests"

\* the order the specification gives the six tasks
ChainOrder ==
  << Extractor, SchemaInitializer, Loader, QualityChecker, Transformer, TransformVerifier >>

Started(t) == state[t] \in {"running", "success", "up_for_retry", "failed"}

Failing(t) == state[t] \in {"up_for_retry", "failed"}

\* C1: a task has started only if its immediate predecessor in the chain
\* Extractor, Schema Initializer, Loader, Quality Checker, Transformer,
\* Transform Verifier has succeeded in this run, and at most one task of the
\* run is executing.
C1_StrictLinearOrder ==
  /\ \A i \in 2..Len(ChainOrder) :
       Started(ChainOrder[i]) => state[ChainOrder[i - 1]] = "success"
  /\ Cardinality({ t \in Tasks : state[t] = "running" }) <= 1

C1_Witness ==
  /\ state[TransformVerifier] = "running"
  /\ \A i \in 1..5 : state[ChainOrder[i]] = "success"

\* C2: the Quality Checker never fails because of what it finds.  A failing
\* attempt is one whose connection failed (OperationalError) or whose query
\* the database rejected (ProgrammingError; here only the comparison of the
\* duration column of a table loaded from an empty file, created as TEXT);
\* with duplicates and outliers found it succeeded, logged both warnings, and
\* the Transformer may start.
C2_FindingsNeverFail ==
  /\ Failing(QualityChecker) =>
       \/ error[QualityChecker] = "OperationalError"
       \/ /\ error[QualityChecker] = "ProgrammingError"
          /\ itsm_raw_tickets.rows = << >>
  /\ state[QualityChecker] = "success" =>
       /\ checks.duplicate_check >= 0
       /\ checks.outlier_check >= 0
       /\ ("duplicates" \in checks.warnings) = (checks.duplicate_check > 0)
       /\ ("outliers" \in checks.warnings) = (checks.outlier_check > 0)
       /\ state[Transformer] = "none" => Runnable(Transformer)

C2_Witness ==
  /\ state[QualityChecker] = "success"
  /\ checks.warnings = {"duplicates", "outliers"}
  /\ state[Transformer] = "running"

\* a field of the file and the value the table holds for it
SameValue(field, value) ==
  \/ field.k = "csv_text" /\ value.k = "str" /\ value.s = field.s /\ value.n = field.n
  \/ /\ field.k = "csv_number" /\ value.k = "float"
     /\ value.n = field.n /\ value.d = field.d
  \/ field.k = "csv_empty" /\ value.k = "null"

\* C3: when the Loader has just succeeded the table holds exactly the rows of
\* the intermediate file, in order, whatever it held before: as many rows as
\* the file, each field with the file's value.
C3_LoaderReplaces ==
  (state[Loader] = "success" /\ state[QualityChecker] = "none") =>
    /\ itsm_raw_tickets.exists
    /\ Len(itsm_raw_tickets.rows) = Len(staging_csv.rows)
    /\ \A i \in DOMAIN staging_csv.rows : \A c \in Range(StagingColumns) :
         SameValue(staging_csv.rows[i][c], itsm_raw_tickets.rows[i][c])

\* the Loader has replaced a table that held other, more rows
C3_Witness ==
  /\ state[Loader] = "success"
  /\ state[QualityChecker] = "none"
  /\ Len(itsm_raw_tickets.rows) > 0
  /\ replaced > Len(itsm_raw_tickets.rows)

\* the duration of a sheet row in seconds is negative or above 720 hours
SheetRowIsOutlier(row) ==
  /\ row["inc_resolved_at"].k = "datetime"
  /\ row["inc_sys_created_on"].k = "datetime"
  /\ LET secs == row["inc_resolved_at"].n - row["inc_sys_created_on"].n
     IN  secs < 0 \/ secs > 720 * 3600

\* C4: the outlier count is the number of rows whose duration is negative or
\* greater than 720 hours; rows of 0 h, of exactly 720 h, in between, or with
\* no duration are not counted.
C4_OutlierCount ==
  checks.outlier_check # -1 =>
    checks.outlier_check = Cardinality({ i \in DOMAIN xlsx : SheetRowIsOutlier(xlsx[i]) })

\* two rows counted, beside a row of exactly 720 h that is not
C4_Witness ==
  /\ checks.outlier_check = 2
  /\ Len(xlsx) = 3
  /\ \E i \in DOMAIN xlsx :
       /\ xlsx[i]["inc_sys_created_on"] = Datetime(0)
       /\ xlsx[i]["inc_resolved_at"] = Datetime(720 * 3600)

Shares(i, j) == i # j /\ xlsx[i]["inc_number"] = xlsx[j]["inc_number"]

\* C5: the duplicate count is the number of incident numbers held by more
\* than one row (the rows without a number forming one group): 0 exactly when
\* no two rows share a number, and at least 1 when two rows are INC001.
C5_DuplicateGroups ==
  checks.duplicate_check # -1 =>
    /\ checks.duplicate_check =
         Cardinality({ xlsx[i]["inc_number"] :
                         i \in { i \in DOMAIN xlsx : \E j \in DOMAIN xlsx : Shares(i, j) } })
    /\ (checks.duplicate_check = 0) = (\A i, j \in DOMAIN xlsx : ~Shares(i, j))
    /\ (\E i, j \in DOMAIN xlsx : Shares(i, j) /\ xlsx[i]["inc_number"] = Str("INC001"))
         => checks.duplicate_check >= 1

\* three rows INC001: one group, two surplus rows
C5_Witness ==
  /\ checks.duplicate_check = 1
  /\ Len(xlsx) = 3
  /\ \A i \in DOMAIN xlsx : xlsx[i]["inc_number"] = Str("INC001")

\* C6: run on an existing table, the Schema Initializer leaves its rows and
\* columns as they are and raises nothing of its own (only a lost connection
\* fails the attempt); it creates the declared, empty table when there is none.
C6_SchemaInitializerIdempotent ==
  [][ state[SchemaInitializer] = "running" =>
        /\ error'[SchemaInitializer] \in {"none", "OperationalError"}
        /\ itsm_raw_tickets.exists => itsm_raw_tickets' = itsm_raw_tickets
        /\ (~itsm_raw_tickets.exists /\ state'[SchemaInitializer] = "success")
             => itsm_raw_tickets' = Table(DeclaredSchema, << >>) ]_vars

\* it has run on a table that holds rows, before the Loader of the run
C6_Witness ==
  /\ state[SchemaInitializer] = "success"
  /\ state[Loader] = "none"
  /\ Len(itsm_raw_tickets.rows) > 0

Downstream(t) ==
  LET i == CHOOSE k \in DOMAIN ChainOrder : ChainOrder[k] = t
  IN  { ChainOrder[k] : k \in (i + 1)..Len(ChainOrder) }

\* C7: a task-fatal error fails the attempt (the Extractor does not succeed
\* on a sheet whose timestamps do not parse, nor the Quality Checker without
\* both counts); no task is attempted more than twice; an e-mail is sent only
\* as a failure e-mail for a task whose second attempt failed, none while a
\* retry is pending; a failed task ends the run failed, nothing downstream
\* run.
C7_RetryAndNotify ==
  /\ state[Extractor] = "success" =>
       \A i \in DOMAIN xlsx :
         /\ Parseable(xlsx[i]["inc_resolved_at"])
         /\ Parseable(xlsx[i]["inc_sys_created_on"])
  /\ state[QualityChecker] = "success" => checks.outlier_check # -1
  /\ \A t \in Tasks :
       /\ try_number[t] <= 2
       /\ << t, "failure" >> \in emails => (state[t] = "failed" /\ try_number[t] = 2)
       /\ << t, "retry" >> \notin emails
       /\ state[t] = "failed" =>
            /\ try_number[t] = 2
            /\ dag_run \in {"running", "failed"}
            /\ \A d \in Downstream(t) :
                 state[d] \in {"none", "upstream_failed"} /\ try_number[d] = 0
       /\ state[t] = "up_for_retry" => try_number[t] = 1
  /\ dag_run = "success" => \A t \in Tasks : state[t] = "success"

\* the Loader's retry failed too: run failed, the checker never run
C7_Witness ==
  /\ state[Loader] = "failed"
  /\ error[Loader] = "OperationalError"
  /\ try_number[Loader] = 2
  /\ dag_run = "failed"
  /\ state[QualityChecker] = "upstream_failed"

\* C8: whenever the table exists it has the 16 declared columns, the two
\* timestamps TIMESTAMP and the duration NUMERIC.
C8_FixedSchema ==
  itsm_raw_tickets.exists => itsm_raw_tickets.columns = DeclaredSchema

\* C9: the intermediate file changes only in a step of the Extractor, the
\* table only in a step of the Loader or of the Schema Initializer creating a
\* missing table.
C9_SingleWriters ==
  [][ /\ staging_csv' # staging_csv => state[Extractor] = "running"
      /\ itsm_raw_tickets' # itsm_raw_tickets =>
           \/ state[Loader] = "running"
           \/ state[SchemaInitializer] = "running" /\ ~itsm_raw_tickets.exists ]_vars

\* a later run, through to the Transform Verifier, over a loaded table
C9_Witness ==
  /\ state[TransformVerifier] = "success"
  /\ replaced > 0
  /\ Len(itsm_raw_tickets.rows) > 0
  /\ staging_csv.exists

\* a cell of the sheet and the field written for it
WrittenUnchanged(cell, field) ==
  \/ cell.k = "str" /\ field.k = "csv_text" /\ field.s = cell.s
  \/ cell.k = "datetime" /\ field.k = "csv_text" /\ field.s = DatetimeText /\ field.n = cell.n
  \/ cell.k = "nan" /\ field.k = "csv_empty"

\* C10: when the Extractor has just succeeded the file has one row per sheet
\* row; where both timestamps are present the duration written, n/d hours, is
\* the difference in seconds over 3600 (24 for one day, negative when
\* resolved before created), and every other field is the sheet's.
C10_DurationInHours ==
  (state[Extractor] = "success" /\ state[SchemaInitializer] = "none") =>
    /\ Len(staging_csv.rows) = Len(xlsx)
    /\ \A i \in DOMAIN xlsx :
         LET created == xlsx[i]["inc_sys_created_on"]
             resolved == xlsx[i]["inc_resolved_at"]
             hours == staging_csv.rows[i][DerivedColumn]
         IN  /\ (created.k = "datetime" /\ resolved.k = "datetime") =>
                  /\ hours.k = "csv_number"
                  /\ hours.d > 0
                  /\ hours.n * 3600 = hours.d * (resolved.n - created.n)
             /\ (created = Datetime(0) /\ resolved = Datetime(86400)) =>
                  hours.n = 24 /\ hours.d = 1
             /\ \A c \in Range(SourceColumns) :
                  WrittenUnchanged(xlsx[i][c], staging_csv.rows[i][c])

\* a 24-hour ticket and one resolved before it was created
C10_Witness ==
  /\ state[Extractor] = "success"
  /\ state[SchemaInitializer] = "none"
  /\ \E i, j \in DOMAIN staging_csv.rows :
       /\ staging_csv.rows[i][DerivedColumn] = Cell("csv_number", "", 24, 1)
       /\ staging_csv.rows[j][DerivedColumn] = Cell("csv_number", "", -24, 1)

====
